---- MODULE Spec2Model ----
(***************************************************************************)
(* A model of tmdb_etl_lambda.py: the retrying fetcher, the paginated      *)
(* listing extractor, the pooled detail enricher, the imputing cleaner and *)
(* the run-level handler.                                                  *)
(*                                                                         *)
(* Python values are records of one shape, [t, n, d, s]:                   *)
(*   t = "none"                  None                                      *)
(*   t = "num"                   the rational n/d (d = 0, n = 1: +inf)     *)
(*   t = "str"                   the string whose characters are s         *)
(*   t = "bool"                  n = 1 for True, 0 for False               *)
(*   t = "list"                  a list of names, s[i] the i-th name       *)
(* A Python dict is a function from field names to such values.  Floats    *)
(* are modelled as exact rationals, seconds of sleep as milliseconds.      *)
(*                                                                         *)
(* Specifications:                                                         *)
(*   SpecRequest   one call of make_api_request, attempt by attempt        *)
(*   SpecExtract   one call of fetch_movies, record by record              *)
(*   SpecEnrich    one call of enrich_movie_data_parallel, with its pool   *)
(*   SpecClean     clean_transform_data, applied once and again            *)
(*   SpecRun       one invocation of lambda_handler                        *)
(***************************************************************************)
EXTENDS Integers, Sequences, FiniteSets, TLC

VARIABLES
    \* make_api_request
    retries, backoff_factor, attempt, events, req_pc, req_result,
    \* fetch_movies
    max_pages, page, data, movies_list, movie_ids_seen, fm_pc, fm_error,
    fetched, first_of, id_order, dropped, failed_page,
    \* enrich_movie_data_parallel
    en_movies_list, max_details, max_workers, movies_to_process, movie_ids,
    pending, running, details_list, details_dict, enriched_movies, en_pc, en_error,
    failed_ids, finish_order,
    \* clean_transform_data
    cl_movies_list, cleaned_movies, cleaned_again, cl_pc,
    \* lambda_handler and upload_to_s3
    MAX_PAGES, MAX_DETAILS, MAX_WORKERS, run_pc, stages, puts, response

req_vars == <<retries, backoff_factor, attempt, events, req_pc, req_result>>
fm_vars == <<max_pages, page, data, movies_list, movie_ids_seen, fm_pc, fm_error,
             fetched, first_of, id_order, dropped, failed_page>>
en_vars == <<en_movies_list, max_details, max_workers, movies_to_process, movie_ids,
             pending, running, details_list, details_dict, enriched_movies, en_pc,
             en_error, failed_ids, finish_order>>
cl_vars == <<cl_movies_list, cleaned_movies, cleaned_again, cl_pc>>
run_vars == <<MAX_PAGES, MAX_DETAILS, MAX_WORKERS, run_pc, stages, puts, response>>
vars == <<req_vars, fm_vars, en_vars, cl_vars, run_vars>>

(***************************************************************************)
(* Bounds of the model.                                                    *)
(***************************************************************************)
MaxRetries == 3
MaxPagesBound == 3
MaxPageLen == 2
MaxListLen == 3
MaxDetailsBound == 2
MaxWorkersBound == 2

(***************************************************************************)
(* Values.                                                                 *)
(***************************************************************************)
None == [t |-> "none", n |-> 0, d |-> 1, s |-> <<>>]
Num(k) == [t |-> "num", n |-> k, d |-> 1, s |-> <<>>]
Str(cs) == [t |-> "str", n |-> 0, d |-> 1, s |-> cs]
Bool(b) == [t |-> "bool", n |-> IF b THEN 1 ELSE 0, d |-> 1, s |-> <<>>]
List(names) == [t |-> "list", n |-> 0, d |-> 1, s |-> names]
Inf == [t |-> "num", n |-> 1, d |-> 0, s |-> <<>>]

IsNone(v) == v.t = "none"

\* Python truthiness of a value
Truthy(v) ==
    CASE v.t = "none" -> FALSE
      [] v.t = "num" -> v.n # 0
      [] v.t = "bool" -> v.n = 1
      [] OTHER -> v.s # <<>>

\* dict.get(key, default)
Get(dict, key, default) == IF key \in DOMAIN dict THEN dict[key] ELSE default

\* {**a, **b}: the keys of both, b's value where both define the key
Merge(a, b) ==
    [k \in DOMAIN a \cup DOMAIN b |-> IF k \in DOMAIN b THEN b[k] ELSE a[k]]

\* dict with one key set
Put(dict, key, v) == Merge(dict, key :> v)

\* dict without one key: dict.pop(key, None)
Pop(dict, key) == [k \in DOMAIN dict \ {key} |-> dict[k]]

Min(a, b) == IF a <= b THEN a ELSE b

RECURSIVE Pow2(_)
Pow2(k) == IF k <= 0 THEN 1 ELSE 2 * Pow2(k - 1)

(***************************************************************************)
(* Exceptions: the type and the argument str(e) shows.                     *)
(***************************************************************************)
NoError == [exc |-> "", arg |-> 0]
HTTPErrorExc(code) == [exc |-> "HTTPError", arg |-> code]
URLErrorExc == [exc |-> "URLError", arg |-> 0]
DecodeErrorExc == [exc |-> "JSONDecodeError", arg |-> 0]
FetchExhausted(r) == [exc |-> "Failed to fetch data after attempts", arg |-> r]
KeyErrorExc == [exc |-> "KeyError", arg |-> 0]

(***************************************************************************)
(* make_api_request                                                        *)
(***************************************************************************)
\* What one urlopen + json.loads can do: answer 200 with a JSON body, answer
\* an HTTP error status, fail below HTTP, or answer 200 with a body that
\* does not decode.
HttpOk == [kind |-> "response", code |-> 200]
HttpStatus(code) == [kind |-> "HTTPError", code |-> code]
NetworkDown == [kind |-> "URLError", code |-> 0]
BadBody == [kind |-> "JSONDecodeError", code |-> 200]

RetryableCodes == {429, 500, 502, 503, 504}
OtherCodes == {404}

HttpOutcomes ==
    {HttpOk, NetworkDown, BadBody}
        \cup {HttpStatus(c) : c \in RetryableCodes \cup OtherCodes}

DefaultRetries == 3
\* backoff_factor = 0.5 s, in milliseconds
DefaultBackoffMs == 500
\* popularity below 100 is Low, below 500 Medium
LowBelow == 100
MediumBelow == 500

\* IsRetryable with 504 left out of the list
IsRetryableNarrow(o) == o.kind = "HTTPError" /\ o.code \in {429, 500, 502, 503}
\* e.code in [429, 500, 502, 503, 504]
IsRetryable(o) == o.kind = "HTTPError" /\ o.code \in RetryableCodes

\* sleep_time = backoff_factor * (2 ** attempt)
SleepTime(backoff, a) == backoff * Pow2(a)

\* The exception an outcome that is neither a success nor retryable raises
RaisedBy(o) ==
    CASE o.kind = "HTTPError" -> HTTPErrorExc(o.code)
      [] o.kind = "URLError" -> URLErrorExc
      [] OTHER -> DecodeErrorExc

RequestEvent(o) == [e |-> "request", kind |-> o.kind, v |-> o.code]
SleepEvent(ms) == [e |-> "sleep", kind |-> "", v |-> ms]

\* One iteration of `for attempt in range(retries)`
UrlOpen ==
    /\ req_pc = "loop"
    /\ attempt < retries
    /\ \E o \in HttpOutcomes :
        IF o = HttpOk
        THEN /\ events' = Append(events, RequestEvent(o))
             /\ req_pc' = "returned"
             /\ req_result' = NoError
             /\ UNCHANGED attempt
        ELSE IF IsRetryable(o)
        THEN /\ events' = events \o <<RequestEvent(o),
                                      SleepEvent(SleepTime(backoff_factor, attempt))>>
             /\ attempt' = attempt + 1
             /\ UNCHANGED <<req_pc, req_result>>
        ELSE /\ events' = Append(events, RequestEvent(o))
             /\ req_pc' = "raised"
             /\ req_result' = RaisedBy(o)
             /\ UNCHANGED attempt
    /\ UNCHANGED <<retries, backoff_factor, fm_vars, en_vars, cl_vars, run_vars>>

\* The loop ran out: raise Exception("Failed to fetch data ... after N attempts")
RetriesExhausted ==
    /\ req_pc = "loop"
    /\ attempt >= retries
    /\ req_pc' = "raised"
    /\ req_result' = FetchExhausted(retries)
    /\ UNCHANGED <<retries, backoff_factor, attempt, events, fm_vars, en_vars, cl_vars, run_vars>>

\* The result of one whole call, given what each attempt's request does:
\* outcomes[a + 1] is the outcome of attempt a.
RECURSIVE make_api_request(_, _, _)
make_api_request(outcomes, r, a) ==
    IF a >= r THEN [kind |-> "raise", exc |-> FetchExhausted(r)]
    ELSE LET o == outcomes[a + 1] IN
         IF o = HttpOk THEN [kind |-> "return", exc |-> NoError]
         ELSE IF IsRetryable(o) THEN make_api_request(outcomes, r, a + 1)
         ELSE [kind |-> "raise", exc |-> RaisedBy(o)]

\* What the attempts of one call with the default retries can do
OutcomeSeqs == [1..DefaultRetries -> HttpOutcomes]

\* What one call with the default retries can end in
RequestResults == {make_api_request(outcomes, DefaultRetries, 0) : outcomes \in OutcomeSeqs}

ReqIdle ==
    /\ retries = 0 /\ backoff_factor = 0 /\ attempt = 0
    /\ events = <<>> /\ req_pc = "idle" /\ req_result = NoError

FmIdle ==
    /\ max_pages = 0 /\ page = 0 /\ data = <<>> /\ movies_list = <<>>
    /\ movie_ids_seen = {} /\ fm_pc = "idle" /\ fm_error = NoError
    /\ fetched = <<>> /\ first_of = <<>> /\ id_order = <<>> /\ dropped = {}
    /\ failed_page = 0

EnIdle ==
    /\ en_movies_list = <<>> /\ max_details = None /\ max_workers = 0
    /\ movies_to_process = <<>> /\ movie_ids = <<>> /\ pending = <<>>
    /\ running = {} /\ details_list = <<>> /\ details_dict = <<>>
    /\ enriched_movies = <<>> /\ en_pc = "idle" /\ en_error = NoError
    /\ failed_ids = {} /\ finish_order = <<>>

ClIdle ==
    /\ cl_movies_list = <<>> /\ cleaned_movies = <<>> /\ cleaned_again = <<>>
    /\ cl_pc = "idle"

NoResponse == [statusCode |-> 0, status |-> "", movies_processed |-> 0,
               error |-> NoError]

RunIdle ==
    /\ MAX_PAGES = 0 /\ MAX_DETAILS = 0 /\ MAX_WORKERS = 0
    /\ run_pc = "idle" /\ stages = <<>> /\ puts = <<>> /\ response = NoResponse

InitRequest ==
    /\ retries \in 0..MaxRetries
    /\ backoff_factor \in {DefaultBackoffMs, 2 * DefaultBackoffMs}
    /\ attempt = 0
    /\ events = <<>>
    /\ req_pc = "loop"
    /\ req_result = NoError
    /\ FmIdle
    /\ EnIdle
    /\ ClIdle
    /\ RunIdle

NextRequest == UrlOpen \/ RetriesExhausted

\* The loop, run to its end, and make_api_request over the same outcomes agree
LoopAgreesWithCall ==
    req_pc \in {"returned", "raised"} =>
    LET IsRequest(ev) == ev.e = "request"
        made == SelectSeq(events, IsRequest)
        outcomes == [a \in 1..retries |->
                        IF a <= Len(made)
                        THEN [kind |-> made[a].kind, code |-> made[a].v]
                        ELSE HttpOk]
    IN make_api_request(outcomes, retries, 0)
         = [kind |-> IF req_pc = "returned" THEN "return" ELSE "raise",
            exc |-> req_result]

SpecRequest == InitRequest /\ [][NextRequest]_vars

(***************************************************************************)
(* fetch_movies                                                            *)
(***************************************************************************)
Chars_NoOverview ==
    <<"N","o"," ","o","v","e","r","v","i","e","w"," ",
      "a","v","a","i","l","a","b","l","e">>
Chars_PosterPrefix ==
    <<"<","h","t","t","p","s",":","/","/","i","m","a","g","e",".","t","m","d","b",
      ".","o","r","g","/","t","/","p","/","w","5","0","0">>
Chars_PosterSuffix == <<">">>

\* Movies as the listing endpoint can answer them
ApiMovieFull ==
    [k \in {"id", "title", "release_date", "vote_average", "vote_count",
            "popularity", "overview", "poster_path"} |->
        CASE k = "id" -> Num(1)
          [] k = "title" -> Str(<<"A">>)
          [] k = "release_date" -> Str(<<"2","0","2","0","-","0","5","-","0","1">>)
          [] k = "vote_average" -> Num(7)
          [] k = "vote_count" -> Num(10)
          [] k = "popularity" -> Num(100)
          [] k = "overview" -> Str(<<"o">>)
          [] OTHER -> Str(<<"/","p">>)]
\* the same identifier again, with another payload and no optional field
ApiMovieAgain == ("id" :> Num(1)) @@ ("title" :> Str(<<"B">>))
ApiMovieSparse ==
    ("id" :> Num(2)) @@ ("title" :> Str(<<"C">>)) @@ ("popularity" :> None)
        @@ ("poster_path" :> None) @@ ("release_date" :> Str(<<>>))
\* a record without a title: movie["title"] raises KeyError
ApiMovieUntitled == ("id" :> Num(3)) @@ ("vote_count" :> Num(0))

ApiMovies == {ApiMovieFull, ApiMovieAgain, ApiMovieSparse, ApiMovieUntitled}

RECURSIVE SeqsUpTo(_, _)
SeqsUpTo(S, k) ==
    IF k <= 0 THEN {<<>>}
    ELSE LET shorter == SeqsUpTo(S, k - 1) IN
         shorter \cup {Append(q, x) : q \in shorter, x \in S}

\* The decoded bodies of one listing page: with or without a "results" key
PageBodies ==
    {[has_results |-> TRUE, results |-> q] : q \in SeqsUpTo(ApiMovies, MaxPageLen)}
        \cup {[has_results |-> FALSE, results |-> <<>>]}

\* data.get("results", [])
Results(body) == IF body.has_results THEN body.results ELSE <<>>

\* The dict fetch_movies builds from one listed movie
MovieElement(movie) ==
    [k \in {"movie_id", "title", "release_date", "vote_average", "vote_count",
            "popularity", "overview", "poster_url"} |->
        CASE k = "movie_id" -> movie["id"]
          [] k = "title" -> movie["title"]
          [] k = "release_date" -> Get(movie, "release_date", Str(<<>>))
          [] k = "vote_average" -> Get(movie, "vote_average", None)
          [] k = "vote_count" -> Get(movie, "vote_count", None)
          [] k = "popularity" -> Get(movie, "popularity", None)
          [] k = "overview" -> Get(movie, "overview", Str(Chars_NoOverview))
          [] OTHER ->
                IF Truthy(Get(movie, "poster_path", None))
                THEN Str(Chars_PosterPrefix \o movie["poster_path"].s
                            \o Chars_PosterSuffix)
                ELSE None]

\* SeenAfter without the add
SeenAfterForgetful(seen, movie_id) == seen
\* movie_ids_seen.add(movie_id)
SeenAfter(seen, movie_id) == seen \cup {movie_id}

\* AbortsRun with the page test widened to every page
AbortsOnAnyPage(p) == p >= 1
\* if page == 1: raise
AbortsRun(p) == p = 1

\* The except branch of the page loop: re-raise on page 1, else break and return
PageFailed(exc) ==
    /\ failed_page' = page
    /\ IF AbortsRun(page)
       THEN fm_pc' = "raised" /\ fm_error' = exc
       ELSE fm_pc' = "returned" /\ fm_error' = NoError

\* fetch_movies(max_pages) is entered
EnterFetchMovies(mp) ==
    /\ max_pages' = mp
    /\ page' = 1
    /\ data' = <<>>
    /\ movies_list' = <<>>
    /\ movie_ids_seen' = {}
    /\ fm_pc' = IF mp >= 1 THEN "loop" ELSE "returned"
    /\ fm_error' = NoError
    /\ fetched' = <<>>
    /\ first_of' = <<>> /\ id_order' = <<>> /\ dropped' = {}
    /\ failed_page' = 0

\* data = make_api_request(url) for the current page
FetchPage ==
    /\ fm_pc = "loop"
    /\ fetched' = Append(fetched, page)
    /\ \E r \in RequestResults :
        IF r.kind = "raise"
        THEN /\ PageFailed(r.exc)
             /\ UNCHANGED data
        ELSE /\ \E body \in PageBodies : data' = Results(body)
             /\ fm_pc' = "records"
             /\ UNCHANGED <<fm_error, failed_page>>
    /\ UNCHANGED <<max_pages, page, movies_list, movie_ids_seen, first_of, id_order,
                   dropped, req_vars, en_vars, cl_vars, run_vars>>

\* History of the records whose loop body ran to its end: the first record
\* seen of each identifier, the identifiers in the order they first came, and
\* the records that repeated an identifier.
Consumed(movie) ==
    IF movie["id"] \in DOMAIN first_of
    THEN /\ dropped' = dropped \cup {movie}
         /\ UNCHANGED <<first_of, id_order>>
    ELSE /\ first_of' = Put(first_of, movie["id"], movie)
         /\ id_order' = Append(id_order, movie["id"])
         /\ UNCHANGED dropped

\* One iteration of `for movie in data.get("results", [])`
ProcessMovie ==
    /\ fm_pc = "records"
    /\ data # <<>>
    /\ LET movie == Head(data)
           movie_id == movie["id"]
       IN
       /\ data' = Tail(data)
       /\ IF movie_id \in movie_ids_seen
          THEN /\ Consumed(movie)
               /\ UNCHANGED <<movies_list, movie_ids_seen, fm_pc, fm_error, failed_page>>
          ELSE /\ movie_ids_seen' = SeenAfter(movie_ids_seen, movie_id)
               /\ IF "title" \in DOMAIN movie
                  THEN /\ movies_list' = Append(movies_list, MovieElement(movie))
                       /\ Consumed(movie)
                       /\ UNCHANGED <<fm_pc, fm_error, failed_page>>
                  ELSE /\ PageFailed(KeyErrorExc)
                       /\ UNCHANGED <<movies_list, first_of, id_order, dropped>>
    /\ UNCHANGED <<max_pages, page, fetched, req_vars, en_vars, cl_vars, run_vars>>

\* The page's records are done: log, sleep 0.5 s, next page or return
PageDone ==
    /\ fm_pc = "records"
    /\ data = <<>>
    /\ page' = page + 1
    /\ fm_pc' = IF page + 1 <= max_pages THEN "loop" ELSE "returned"
    /\ UNCHANGED <<max_pages, data, movies_list, movie_ids_seen, fm_error,
                   fetched, first_of, id_order, dropped, failed_page,
                   req_vars, en_vars, cl_vars, run_vars>>

InitExtract ==
    /\ ReqIdle
    /\ EnIdle
    /\ ClIdle
    /\ RunIdle
    /\ \E mp \in 0..MaxPagesBound :
        /\ max_pages = mp
        /\ fm_pc = IF mp >= 1 THEN "loop" ELSE "returned"
    /\ page = 1 /\ data = <<>> /\ movies_list = <<>> /\ movie_ids_seen = {}
    /\ fm_error = NoError /\ fetched = <<>> /\ first_of = <<>> /\ id_order = <<>>
    /\ dropped = {} /\ failed_page = 0

NextExtract == FetchPage \/ ProcessMovie \/ PageDone

SpecExtract == InitExtract /\ [][NextExtract]_vars

(***************************************************************************)
(* fetch_movie_details                                                     *)
(***************************************************************************)
DetailFields ==
    {"budget", "revenue", "runtime", "status", "tagline", "genres",
     "production_companies", "spoken_languages", "original_language", "adult",
     "homepage", "imdb_id", "keywords"}
NameListFields ==
    {"genres", "production_companies", "spoken_languages", "keywords"}

\* Movies as the detail endpoint can answer them (a name is one character)
ApiDetailFull ==
    [k \in DetailFields |->
        CASE k = "budget" -> Num(100)
          [] k = "revenue" -> Num(150)
          [] k = "runtime" -> Num(90)
          [] k = "genres" -> List(<<"G", "H">>)
          [] k = "production_companies" -> List(<<"P">>)
          [] k = "spoken_languages" -> List(<<>>)
          [] k = "keywords" -> List(<<"k">>)
          [] k = "adult" -> Bool(TRUE)
          [] k = "original_language" -> Str(<<"e", "n">>)
          [] OTHER -> Str(<<"s">>)]
ApiDetailSparse == ("budget" :> Num(0)) @@ ("runtime" :> None)
\* "genres" is no list of named things: building the record raises
ApiDetailMalformed == ("budget" :> Num(5)) @@ ("genres" :> Num(1))

ApiDetails == {ApiDetailFull, ApiDetailSparse, ApiDetailMalformed}

\* ', '.join(names)
RECURSIVE JoinNames(_)
JoinNames(names) ==
    IF names = <<>> THEN <<>>
    ELSE IF Len(names) = 1 THEN <<names[1]>>
    ELSE <<names[1], ",", " ">> \o JoinNames(Tail(names))

\* str(x) of a bool
StrOfBool(v) ==
    Str(IF v.n = 1 THEN <<"T","r","u","e">> ELSE <<"F","a","l","s","e">>)

\* Whether the dict literal of fetch_movie_details can be built from `movie`
DetailBuilds(movie) ==
    \A k \in NameListFields : k \in DOMAIN movie => movie[k].t = "list"

DetailRecord(movie_id, movie) ==
    [k \in DetailFields \cup {"movie_id"} |->
        CASE k = "movie_id" -> movie_id
          [] k \in {"budget", "revenue", "runtime"} -> Get(movie, k, None)
          [] k \in NameListFields -> Str(JoinNames(Get(movie, k, List(<<>>)).s))
          [] k = "adult" -> StrOfBool(Get(movie, "adult", Bool(FALSE)))
          [] OTHER -> Get(movie, k, Str(<<>>))]

\* The stub of a failed fetch
Stub(movie_id) == "movie_id" :> movie_id

\* fetch_movie_details without its try/except
fetch_movie_details_uncaught(movie_id, r, movie) ==
    IF r.kind = "raise" THEN [kind |-> "raise", exc |-> r.exc, value |-> <<>>]
    ELSE IF ~DetailBuilds(movie)
    THEN [kind |-> "raise", exc |-> KeyErrorExc, value |-> <<>>]
    ELSE [kind |-> "return", exc |-> NoError, value |-> DetailRecord(movie_id, movie)]
\* r is what make_api_request did, movie the decoded body it returned
fetch_movie_details(movie_id, r, movie) ==
    IF r.kind = "raise" \/ ~DetailBuilds(movie)
    THEN [kind |-> "return", exc |-> NoError, value |-> Stub(movie_id)]
    ELSE [kind |-> "return", exc |-> NoError, value |-> DetailRecord(movie_id, movie)]

(***************************************************************************)
(* enrich_movie_data_parallel                                              *)
(***************************************************************************)
\* Listings as a caller can pass them
ListingFull == MovieElement(ApiMovieFull)
ListingAgain == MovieElement(ApiMovieAgain)
ListingSparse == MovieElement(ApiMovieSparse)
\* a listing that already carries fields the detail record names
ListingWithDetailFields ==
    ("movie_id" :> Num(3)) @@ ("title" :> Str(<<"D">>)) @@ ("budget" :> Num(7))
        @@ ("status" :> Str(<<"x">>))

Listings == {ListingFull, ListingAgain, ListingSparse, ListingWithDetailFields}

\* The loop that keeps the first movie of each movie_id
RECURSIVE UniqueMovies(_, _, _)
UniqueMovies(movies, unique_movie_ids, unique_movies) ==
    IF movies = <<>> THEN unique_movies
    ELSE LET movie == Head(movies) IN
         IF movie["movie_id"] \notin unique_movie_ids
         THEN UniqueMovies(Tail(movies), unique_movie_ids \cup {movie["movie_id"]},
                           Append(unique_movies, movie))
         ELSE UniqueMovies(Tail(movies), unique_movie_ids, unique_movies)

\* q[:k]
SliceTo(q, k) ==
    IF k >= 0 THEN SubSeq(q, 1, Min(k, Len(q)))
    ELSE SubSeq(q, 1, Len(q) + k)

\* unique_movies[:max_details] if max_details else unique_movies
Select(unique_movies, md) ==
    IF Truthy(md) THEN SliceTo(unique_movies, md.n) ELSE unique_movies

\* {detail['movie_id']: detail for detail in details_list if detail}
RECURSIVE DetailsDict(_)
DetailsDict(details) ==
    IF details = <<>> THEN <<>>
    ELSE LET detail == details[Len(details)]
             rest == DetailsDict(SubSeq(details, 1, Len(details) - 1))
         IN IF DOMAIN detail # {} THEN Put(rest, detail["movie_id"], detail) ELSE rest

\* EnrichedMovie with the two dicts swapped: {**details, **movie}
EnrichedMovieListingWins(movie, details) == Merge(details, movie)
\* enriched_movie = {**movie, **details}
EnrichedMovie(movie, details) == Merge(movie, details)

\* One iteration of the join loop
Joined(movie, dict) ==
    IF movie["movie_id"] \in DOMAIN dict
    THEN EnrichedMovie(movie, Pop(dict[movie["movie_id"]], "movie_id"))
    ELSE movie

\* enrich_movie_data_parallel(movies, md, mw) is entered
EnterEnrich(movies, md, mw) ==
    /\ en_movies_list' = movies
    /\ max_details' = md
    /\ max_workers' = mw
    /\ movies_to_process' = <<>> /\ movie_ids' = <<>> /\ pending' = <<>>
    /\ running' = {} /\ details_list' = <<>> /\ details_dict' = <<>>
    /\ enriched_movies' = <<>> /\ en_pc' = "start" /\ en_error' = NoError
    /\ failed_ids' = {} /\ finish_order' = <<>>

\* Dedup, select, and submit one fetch per selected identifier to the pool
Submit ==
    /\ en_pc = "start"
    /\ LET selected == Select(UniqueMovies(en_movies_list, {}, <<>>), max_details) IN
       /\ movies_to_process' = selected
       /\ movie_ids' = [i \in 1..Len(selected) |-> selected[i]["movie_id"]]
       /\ pending' = [i \in 1..Len(selected) |-> i]
    /\ en_pc' = "pool"
    /\ UNCHANGED <<en_movies_list, max_details, max_workers, running, details_list,
                   details_dict, enriched_movies, en_error, failed_ids, finish_order,
                   req_vars, fm_vars, cl_vars, run_vars>>

\* PoolHasRoom of a pool that starts a thread per submitted call
PoolHasRoomAlways(inflight, mw) == TRUE
\* a pool thread is idle, or fewer than max_workers threads exist
PoolHasRoom(inflight, mw) == Cardinality(inflight) < mw

\* A pool thread takes the next queued fetch
WorkerStart ==
    /\ en_pc = "pool"
    /\ pending # <<>>
    /\ PoolHasRoom(running, max_workers)
    /\ running' = running \cup {Head(pending)}
    /\ pending' = Tail(pending)
    /\ UNCHANGED <<en_movies_list, max_details, max_workers, movies_to_process,
                   movie_ids, details_list, details_dict, enriched_movies, en_pc,
                   en_error, failed_ids, finish_order, req_vars, fm_vars, cl_vars, run_vars>>

\* A running fetch_movie_details call ends
WorkerFinish ==
    /\ en_pc = "pool"
    /\ \E i \in running :
        /\ running' = running \ {i}
        /\ finish_order' = Append(finish_order, i)
        /\ \E r \in RequestResults, movie \in ApiDetails :
            /\ details_list' =
                 (i :> fetch_movie_details(movie_ids[i], r, movie)) @@ details_list
            /\ failed_ids' =
                 IF r.kind = "raise" \/ movie = ApiDetailMalformed
                 THEN failed_ids \cup {movie_ids[i]} ELSE failed_ids
    /\ UNCHANGED <<en_movies_list, max_details, max_workers, movies_to_process,
                   movie_ids, pending, details_dict, enriched_movies, en_pc, en_error,
                   req_vars, fm_vars, cl_vars, run_vars>>

\* list(executor.map(...)) and the with block have every result
PoolDrained(queue, inflight) == queue = <<>> /\ inflight = {}

\* The results in submission order, then the lookup dict and the join loop
Join ==
    /\ en_pc = "pool"
    /\ PoolDrained(pending, running)
    /\ LET raised == {i \in DOMAIN details_list : details_list[i].kind = "raise"} IN
       IF raised # {}
       THEN /\ en_pc' = "raised"
            /\ en_error' =
                 details_list[CHOOSE i \in raised : \A j \in raised : i <= j].exc
            /\ UNCHANGED <<details_dict, enriched_movies>>
       ELSE LET results == [i \in 1..Len(movie_ids) |-> details_list[i].value]
                dict == DetailsDict(results)
            IN
            /\ details_dict' = dict
            /\ enriched_movies' =
                 [i \in 1..Len(movies_to_process) |-> Joined(movies_to_process[i], dict)]
            /\ en_pc' = "returned"
            /\ UNCHANGED en_error
    /\ UNCHANGED <<en_movies_list, max_details, max_workers, movies_to_process,
                   movie_ids, pending, running, details_list, failed_ids,
                   finish_order, req_vars, fm_vars, cl_vars, run_vars>>

MaxDetailsValues == {None} \cup {Num(k) : k \in 0..MaxDetailsBound}

InitEnrich ==
    /\ ReqIdle
    /\ FmIdle
    /\ ClIdle
    /\ RunIdle
    /\ en_movies_list \in SeqsUpTo(Listings, MaxListLen)
    /\ max_details \in MaxDetailsValues
    /\ max_workers \in 1..MaxWorkersBound
    /\ movies_to_process = <<>> /\ movie_ids = <<>> /\ pending = <<>>
    /\ running = {} /\ details_list = <<>> /\ details_dict = <<>>
    /\ enriched_movies = <<>> /\ en_pc = "start" /\ en_error = NoError
    /\ failed_ids = {} /\ finish_order = <<>>

NextEnrich == Submit \/ WorkerStart \/ WorkerFinish \/ Join

SpecEnrich == InitEnrich /\ [][NextEnrich]_vars

(***************************************************************************)
(* Numbers: rationals n/d in lowest terms, d > 0                           *)
(***************************************************************************)
Abs(k) == IF k < 0 THEN -k ELSE k

RECURSIVE GCD(_, _)
GCD(a, b) == IF b = 0 THEN a ELSE GCD(b, a % b)

Rat(n, d) ==
    LET g == GCD(Abs(n), Abs(d))
        sign == IF d < 0 THEN -1 ELSE 1
    IN [t |-> "num", n |-> sign * (n \div g), d |-> sign * (d \div g), s |-> <<>>]

RatAdd(a, b) == Rat(a.n * b.d + b.n * a.d, a.d * b.d)
RatSub(a, b) == Rat(a.n * b.d - b.n * a.d, a.d * b.d)
\* a / b, for b # 0
RatDiv(a, b) == Rat(a.n * b.d, a.d * b.n)
RatLess(a, b) == a.n * b.d < b.n * a.d

(***************************************************************************)
(* calculate_statistics                                                    *)
(***************************************************************************)
NumericalFeatures ==
    {"vote_average", "vote_count", "popularity", "runtime", "budget", "revenue"}
MedianFeatures == {"budget", "revenue", "vote_count"}

\* values[feature]: the values that are present and not None, in list order
RECURSIVE Values(_, _)
Values(movies, feature) ==
    IF movies = <<>> THEN <<>>
    ELSE LET movie == Head(movies) IN
         IF feature \in DOMAIN movie /\ ~IsNone(movie[feature])
         THEN <<movie[feature]>> \o Values(Tail(movies), feature)
         ELSE Values(Tail(movies), feature)

RECURSIVE Sum(_)
Sum(q) == IF q = <<>> THEN Num(0) ELSE RatAdd(Head(q), Sum(Tail(q)))

RECURSIVE Insert(_, _)
Insert(q, x) ==
    IF q = <<>> THEN <<x>>
    ELSE IF RatLess(x, Head(q)) THEN <<x>> \o q
    ELSE <<Head(q)>> \o Insert(Tail(q), x)

RECURSIVE Sorted(_)
Sorted(q) == IF q = <<>> THEN <<>> ELSE Insert(Sorted(Tail(q)), Head(q))

\* statistics.mean of a non-empty list
Mean(q) == RatDiv(Sum(q), Num(Len(q)))

\* statistics.median of a non-empty list
Median(q) ==
    LET sorted == Sorted(q)
        n == Len(q)
    IN IF n % 2 = 1 THEN sorted[(n + 1) \div 2]
       ELSE RatDiv(RatAdd(sorted[n \div 2], sorted[n \div 2 + 1]), Num(2))

calculate_statistics(movies) ==
    [feature \in NumericalFeatures |->
        LET values == Values(movies, feature) IN
        IF values # <<>>
        THEN IF feature \in MedianFeatures THEN Median(values) ELSE Mean(values)
        ELSE Num(0)]

(***************************************************************************)
(* clean_transform_data                                                    *)
(***************************************************************************)
Chars_Unknown == <<"U","n","k","n","o","w","n">>
Digits == {"0", "1", "2", "3", "4", "5", "6", "7", "8", "9"}
DigitValue(c) ==
    CASE c = "0" -> 0 [] c = "1" -> 1 [] c = "2" -> 2 [] c = "3" -> 3
      [] c = "4" -> 4 [] c = "5" -> 5 [] c = "6" -> 6 [] c = "7" -> 7
      [] c = "8" -> 8 [] OTHER -> 9

RECURSIVE Decimal(_)
Decimal(cs) ==
    IF cs = <<>> THEN 0
    ELSE 10 * Decimal(SubSeq(cs, 1, Len(cs) - 1)) + DigitValue(cs[Len(cs)])

AllDigits(cs) == \A i \in 1..Len(cs) : cs[i] \in Digits

IsLeap(y) == (y % 4 = 0 /\ y % 100 # 0) \/ y % 400 = 0
DaysInMonth(y, m) ==
    IF m = 2 THEN (IF IsLeap(y) THEN 29 ELSE 28)
    ELSE IF m \in {4, 6, 9, 11} THEN 30 ELSE 31

\* A one- or two-digit field of strptime whose value is in 1..top
DayOrMonth(cs, top) ==
    /\ Len(cs) \in {1, 2}
    /\ AllDigits(cs)
    /\ Decimal(cs) \in 1..top

\* datetime.strptime(chars, '%Y-%m-%d').year, or -1 where strptime raises
\* ValueError
ParsedYear(cs) ==
    LET dashes == {i \in 1..Len(cs) : cs[i] = "-"} IN
    IF Cardinality(dashes) # 2 THEN -1
    ELSE LET d1 == CHOOSE i \in dashes : \A j \in dashes : i <= j
             d2 == CHOOSE i \in dashes : \A j \in dashes : i >= j
             y == SubSeq(cs, 1, d1 - 1)
             m == SubSeq(cs, d1 + 1, d2 - 1)
             d == SubSeq(cs, d2 + 1, Len(cs))
         IN IF /\ Len(y) = 4 /\ AllDigits(y) /\ Decimal(y) >= 1
               /\ DayOrMonth(m, 12)
               /\ DayOrMonth(d, 31)
               /\ Decimal(d) <= DaysInMonth(Decimal(y), Decimal(m))
            THEN Decimal(y)
            ELSE -1

\* IsMissing as `not movie.get(feature)`: 0 counts as missing
IsMissingWhenFalsy(v) == ~Truthy(v)
\* movie.get(feature) is None
IsMissing(v) == IsNone(v)

\* movie[f] = movie.get(f) if movie.get(f) is not None else stats[f]
Imputed(movie, stats) ==
    Merge(movie,
          [f \in NumericalFeatures |->
              IF IsMissing(Get(movie, f, None)) THEN stats[f] ELSE movie[f]])

\* movie.setdefault(...) for the text fields
TextDefault(k) ==
    CASE k = "overview" -> Str(Chars_NoOverview)
      [] k \in {"tagline", "keywords"} -> Str(<<>>)
      [] OTHER -> Str(Chars_Unknown)
TextDefaulted(movie) ==
    Merge([k \in {"overview", "tagline", "genres", "production_companies",
                  "spoken_languages", "original_language", "keywords"} |->
              TextDefault(k)],
          movie)

\* WithReleaseYear that also stores the parsed year into release_date
WithReleaseYearInPlace(movie) ==
    IF "release_date" \in DOMAIN movie /\ Truthy(movie["release_date"])
    THEN IF movie["release_date"].t = "str" /\ ParsedYear(movie["release_date"].s) >= 0
         THEN Put(Put(movie, "release_year", Num(ParsedYear(movie["release_date"].s))),
                  "release_date", Num(ParsedYear(movie["release_date"].s)))
         ELSE Put(movie, "release_year", None)
    ELSE Put(movie, "release_year", None)
\* release_year from release_date; None when it is empty or does not parse
WithReleaseYear(movie) ==
    IF "release_date" \in DOMAIN movie /\ Truthy(movie["release_date"])
    THEN IF movie["release_date"].t = "str" /\ ParsedYear(movie["release_date"].s) >= 0
         THEN Put(movie, "release_year", Num(ParsedYear(movie["release_date"].s)))
         ELSE Put(movie, "release_year", None)
    ELSE Put(movie, "release_year", None)

\* profit, roi and popularity_category
WithFeatures(movie) ==
    LET revenue == movie["revenue"]
        budget == movie["budget"]
        profit == RatSub(revenue, budget)
        roi == IF RatLess(Num(0), budget) THEN RatDiv(profit, budget)
               ELSE IF revenue = Num(0) THEN Num(0) ELSE Inf
        category ==
            IF RatLess(movie["popularity"], Num(LowBelow)) THEN Str(<<"L","o","w">>)
            ELSE IF RatLess(movie["popularity"], Num(MediumBelow))
            THEN Str(<<"M","e","d","i","u","m">>)
            ELSE Str(<<"H","i","g","h">>)
    IN Merge(movie,
             ("profit" :> profit) @@ ("roi" :> roi) @@ ("popularity_category" :> category))

\* The body of the loop over movies_list
CleanedMovie(movie, stats) ==
    WithFeatures(WithReleaseYear(TextDefaulted(Imputed(movie, stats))))

\* The final dedup: the first movie of each movie_id, in order
RECURSIVE FirstPerId(_, _)
FirstPerId(movies, ids) ==
    IF movies = <<>> THEN <<>>
    ELSE LET movie == Head(movies) IN
         IF movie["movie_id"] \notin ids
         THEN <<movie>> \o FirstPerId(Tail(movies), ids \cup {movie["movie_id"]})
         ELSE FirstPerId(Tail(movies), ids)

clean_transform_data(movies) ==
    IF movies = <<>> THEN <<>>
    ELSE LET stats == calculate_statistics(movies) IN
         FirstPerId([i \in 1..Len(movies) |-> CleanedMovie(movies[i], stats)], {})

\* Records as a caller can pass them
RecordEnriched == Joined(ListingFull, Put(<<>>, Num(1),
                         DetailRecord(Num(1), ApiDetailFull)))
RecordUnenriched == ListingSparse
RecordZeroBudget ==
    Merge(Joined(ListingWithDetailFields,
                 Put(<<>>, Num(3), DetailRecord(Num(3), ApiDetailSparse))),
          ("popularity" :> Num(500)) @@ ("vote_average" :> Num(-1))
              @@ ("revenue" :> Num(50))
              @@ ("release_date" :> Str(<<"2","0","2","1","-","0","2","-","3","0">>)))
RecordSameId ==
    Merge(ListingAgain,
          ("budget" :> Num(40)) @@ ("revenue" :> Num(0)) @@ ("popularity" :> Num(99))
              @@ ("vote_count" :> Num(3)) @@ ("runtime" :> Num(0))
              @@ ("release_date" :> Str(<<"1","9","9","9","-","1","-","5">>)))

Records == {RecordEnriched, RecordUnenriched, RecordZeroBudget, RecordSameId}

\* clean_transform_data(movies) is called
Clean ==
    /\ cl_pc = "start"
    /\ cleaned_movies' = clean_transform_data(cl_movies_list)
    /\ cl_pc' = "cleaned"
    /\ UNCHANGED <<cl_movies_list, cleaned_again, req_vars, fm_vars, en_vars, run_vars>>

\* clean_transform_data is called on its own result
CleanAgain ==
    /\ cl_pc = "cleaned"
    /\ cleaned_again' = clean_transform_data(cleaned_movies)
    /\ cl_pc' = "recleaned"
    /\ UNCHANGED <<cl_movies_list, cleaned_movies, req_vars, fm_vars, en_vars, run_vars>>

InitClean ==
    /\ ReqIdle
    /\ FmIdle
    /\ EnIdle
    /\ RunIdle
    /\ cl_movies_list \in SeqsUpTo(Records, MaxListLen)
    /\ cleaned_movies = <<>>
    /\ cleaned_again = <<>>
    /\ cl_pc = "start"

NextClean == Clean \/ CleanAgain

SpecClean == InitClean /\ [][NextClean]_vars

(***************************************************************************)
(* upload_to_s3 and lambda_handler                                         *)
(***************************************************************************)
FailedToFetchMovies == [exc |-> "Failed to fetch movies", arg |-> 0]
NoCredentials == [exc |-> "NoCredentialsError", arg |-> 0]
PutFailed == [exc |-> "ClientError", arg |-> 0]

\* Every field name a record can carry, in the order sorted() gives
SortedFieldNames ==
    <<"adult", "budget", "genres", "homepage", "imdb_id", "keywords", "movie_id",
      "original_language", "overview", "popularity", "popularity_category",
      "poster_url", "production_companies", "profit", "release_date",
      "release_year", "revenue", "roi", "runtime", "spoken_languages", "status",
      "tagline", "title", "vote_average", "vote_count">>

\* sorted(set().union(*(m.keys() for m in movies_data)))
AllFields(movies_data) ==
    LET keys == UNION {DOMAIN movies_data[i] : i \in 1..Len(movies_data)}
        IsKey(k) == k \in keys
    IN SelectSeq(SortedFieldNames, IsKey)

\* The CSV: its header and its rows
CsvBody(movies_data) ==
    IF movies_data = <<>>
    THEN [fieldnames |-> <<"movie_id", "title", "message">>,
          rows |-> <<("movie_id" :> Num(0))
                        @@ ("title" :> Str(<<"N","o"," ","D","a","t","a">>))
                        @@ ("message" :> Str(<<"N","o"," ","d","a","t","a">>))>>]
    ELSE [fieldnames |-> AllFields(movies_data), rows |-> movies_data]

\* What building the client and put_object can do
UploadOutcomes == {"no client", "put fails", "put succeeds"}

Failure(exc) ==
    [statusCode |-> 500, status |-> "Failure", movies_processed |-> 0, error |-> exc]
Success(count) ==
    [statusCode |-> 200, status |-> "Success", movies_processed |-> count,
     error |-> NoError]

\* lambda_handler is invoked: step 1 starts
StartRun ==
    /\ run_pc = "start"
    /\ EnterFetchMovies(MAX_PAGES)
    /\ stages' = Append(stages, "extract")
    /\ run_pc' = "extract"
    /\ UNCHANGED <<MAX_PAGES, MAX_DETAILS, MAX_WORKERS, puts, response,
                   req_vars, en_vars, cl_vars>>

\* fetch_movies is over and its frame is gone
FetchMoviesLeft ==
    /\ max_pages' = 0 /\ page' = 0 /\ data' = <<>> /\ movie_ids_seen' = {}
    /\ fetched' = <<>> /\ first_of' = <<>> /\ id_order' = <<>> /\ dropped' = {}
    /\ failed_page' = 0
    /\ UNCHANGED <<movies_list, fm_error>>

\* ListingIsEmpty without the check
ListingIsEmptyNever(movies) == FALSE
\* not movies_list
ListingIsEmpty(movies) == movies = <<>>

\* fetch_movies raised or returned: fail the run, or go on to step 2
AfterExtract ==
    /\ run_pc = "extract"
    /\ fm_pc \in {"returned", "raised"}
    /\ FetchMoviesLeft
    /\ IF fm_pc = "raised" \/ ListingIsEmpty(movies_list)
       THEN /\ response' = Failure(IF fm_pc = "raised" THEN fm_error
                                   ELSE FailedToFetchMovies)
            /\ run_pc' = "done"
            /\ fm_pc' = IF fm_pc = "raised" THEN "has raised" ELSE "has returned"
            /\ UNCHANGED <<stages, en_vars>>
       ELSE /\ EnterEnrich(movies_list, Num(MAX_DETAILS), MAX_WORKERS)
            /\ stages' = Append(stages, "enrich")
            /\ run_pc' = "enrich"
            /\ fm_pc' = "has returned"
            /\ UNCHANGED response
    /\ UNCHANGED <<MAX_PAGES, MAX_DETAILS, MAX_WORKERS, puts, req_vars, cl_vars>>

\* enrich_movie_data_parallel is over: go on to step 3
AfterEnrich ==
    /\ run_pc = "enrich"
    /\ en_pc \in {"returned", "raised"}
    /\ movies_to_process' = <<>> /\ movie_ids' = <<>> /\ details_list' = <<>>
    /\ details_dict' = <<>> /\ failed_ids' = {} /\ finish_order' = <<>>
    /\ IF en_pc = "raised"
       THEN /\ response' = Failure(en_error)
            /\ run_pc' = "done"
            /\ en_pc' = "has raised"
            /\ UNCHANGED <<stages, cl_vars>>
       ELSE /\ cl_movies_list' = enriched_movies
            /\ cl_pc' = "start"
            /\ stages' = Append(stages, "clean")
            /\ run_pc' = "clean"
            /\ en_pc' = "has returned"
            /\ UNCHANGED <<response, cleaned_movies, cleaned_again>>
    /\ UNCHANGED <<MAX_PAGES, MAX_DETAILS, MAX_WORKERS, puts, en_movies_list,
                   max_details, max_workers, pending, running, enriched_movies,
                   en_error, req_vars, fm_vars>>

\* Step 4, upload_to_s3(cleaned_movies), and the handler's return
Upload ==
    /\ run_pc = "clean"
    /\ cl_pc = "cleaned"
    /\ stages' = Append(stages, "sink")
    /\ \E outcome \in UploadOutcomes :
        /\ puts' = IF outcome = "no client" THEN puts
                   ELSE Append(puts, [body |-> CsvBody(cleaned_movies),
                                      ok |-> outcome = "put succeeds"])
        /\ response' = CASE outcome = "no client" -> Failure(NoCredentials)
                         [] outcome = "put fails" -> Failure(PutFailed)
                         [] OTHER -> Success(Len(cleaned_movies))
    /\ run_pc' = "done"
    /\ UNCHANGED <<MAX_PAGES, MAX_DETAILS, MAX_WORKERS, req_vars, fm_vars, en_vars,
                   cl_vars>>

InitRun ==
    /\ ReqIdle
    /\ FmIdle
    /\ EnIdle
    /\ ClIdle
    /\ MAX_PAGES \in 0..MaxPagesBound
    /\ MAX_DETAILS \in 0..MaxDetailsBound
    /\ MAX_WORKERS \in 1..MaxWorkersBound
    /\ run_pc = "start"
    /\ stages = <<>>
    /\ puts = <<>>
    /\ response = NoResponse

NextRun ==
    \/ StartRun
    \/ FetchPage \/ ProcessMovie \/ PageDone
    \/ AfterExtract
    \/ Submit \/ WorkerStart \/ WorkerFinish \/ Join
    \/ AfterEnrich
    \/ Clean
    \/ Upload

SpecRun == InitRun /\ [][NextRun]_vars

(***************************************************************************)
(* Claims                                                                  *)
(***************************************************************************)
RequestAt(i) == events[i].e = "request"
AttemptNo(i) == Cardinality({j \in 1..(i - 1) : RequestAt(j)})
RetryableAt(i) ==
    /\ RequestAt(i)
    /\ events[i].kind = "HTTPError"
    /\ events[i].v \in {429, 500, 502, 503, 504}
SuccessAt(i) == RequestAt(i) /\ events[i].kind = "response"
ErrorAt(i) == RequestAt(i) /\ ~SuccessAt(i) /\ ~RetryableAt(i)
RequestCount == Cardinality({i \in 1..Len(events) : RequestAt(i)})
IsExhausted ==
    req_pc = "raised" /\ req_result.exc = "Failed to fetch data after attempts"

\* C5: one call of make_api_request issues at most `retries` requests; a
\* retryable status on attempt a is followed by a sleep of
\* backoff_factor * 2^a and then by the next attempt (while one is left); any
\* other error ends the call at that attempt with that error; a success ends
\* it with a return; and the call ends "failed after R attempts" exactly when
\* all R attempts answered a retryable status.
C5_RetryProtocol ==
    req_pc # "idle" =>
    /\ RequestCount <= retries
    /\ \A i \in 1..Len(events) :
        /\ RetryableAt(i) =>
            /\ i < Len(events)
            /\ events[i + 1] = SleepEvent(backoff_factor * Pow2(AttemptNo(i)))
            /\ IF AttemptNo(i) + 1 < retries
               THEN IF i + 1 = Len(events)
                    THEN req_pc = "loop" /\ attempt = AttemptNo(i) + 1
                                         /\ ENABLED UrlOpen
                    ELSE RequestAt(i + 2)
               ELSE i + 1 = Len(events)
        /\ ErrorAt(i) =>
            /\ i = Len(events)
            /\ req_pc = "raised"
            /\ req_result.exc = events[i].kind
            /\ events[i].kind = "HTTPError" => req_result.arg = events[i].v
        /\ SuccessAt(i) => i = Len(events) /\ req_pc = "returned"
        /\ ~RequestAt(i) => i > 1 /\ RetryableAt(i - 1)
    /\ IsExhausted <=>
        /\ req_pc \in {"returned", "raised"}
        /\ RequestCount = retries
        /\ \A i \in 1..Len(events) : RequestAt(i) => RetryableAt(i)
    /\ IsExhausted => req_result.arg = retries

\* C5 witness: a call that used up three attempts, having slept after each
C5_Witness ==
    /\ IsExhausted
    /\ retries = 3
    /\ Len(events) = 6
    /\ events[6] = SleepEvent(4 * backoff_factor)

\* The records fetch_movies should hold: one per identifier, built from the
\* first record that came with it, in the order the identifiers first came
FirstOccurrences == [i \in 1..Len(id_order) |-> MovieElement(first_of[id_order[i]])]

\* C1: after every processed record of every page, movies_list holds exactly
\* one record per identifier processed so far, built from the first record
\* listed with that identifier, in order of first occurrence; a record that
\* repeats an identifier changes nothing.
C1_FirstOccurrenceKept ==
    fm_pc # "idle" =>
    /\ Len(movies_list) = Cardinality(DOMAIN first_of)
    /\ \A i, j \in 1..Len(movies_list) :
        movies_list[i]["movie_id"] = movies_list[j]["movie_id"] => i = j
    /\ movies_list = FirstOccurrences
    /\ \A movie \in dropped : movie["id"] \in DOMAIN first_of

\* C1 witness: an identifier listed on page 1 came again on a later page with
\* another payload and was dropped
C1_Witness ==
    /\ page >= 2
    /\ fm_pc = "records"
    /\ Num(1) \in DOMAIN first_of
    /\ first_of[Num(1)] = ApiMovieFull
    /\ ApiMovieAgain \in dropped
    /\ Len(movies_list) = 2
    /\ movies_list[1]["title"] = Str(<<"A">>)

\* C4: pages are fetched once each in the order 1, 2, ...; a failure on page 1
\* makes fetch_movies raise; a failure on a later page p makes it return what
\* it has accumulated, with no fetch after p; with no failure it returns after
\* fetching pages 1..max_pages.
C4_PageFailurePolicy ==
    fm_pc # "idle" =>
    /\ fetched = [i \in 1..Len(fetched) |-> i]
    /\ Len(fetched) <= max_pages
    /\ failed_page = 1 => fm_pc = "raised" /\ fm_error # NoError /\ fetched = <<1>>
    /\ fm_pc = "raised" => failed_page = 1
    /\ failed_page > 1 =>
        /\ fm_pc = "returned"
        /\ fm_error = NoError
        /\ Len(fetched) = failed_page
        /\ movies_list = FirstOccurrences
    /\ (fm_pc = "returned" /\ failed_page = 0) => Len(fetched) = max_pages

\* C4 witness: page 2 of 3 failed after page 1 had yielded records
C4_Witness ==
    /\ max_pages = 3
    /\ failed_page = 2
    /\ fm_pc = "returned"
    /\ fetched = <<1, 2>>
    /\ Len(movies_list) >= 1

\* The identifiers of a listing sequence, each once, in order of first occurrence
RECURSIVE FirstIds(_)
FirstIds(q) ==
    IF q = <<>> THEN <<>>
    ELSE LET front == SubSeq(q, 1, Len(q) - 1)
             id == q[Len(q)]["movie_id"]
         IN IF \E j \in 1..Len(front) : front[j]["movie_id"] = id
            THEN FirstIds(front)
            ELSE Append(FirstIds(front), id)

\* C2: the output of enrich_movie_data_parallel has min(max_details, number of
\* distinct identifiers) records when max_details is a non-negative integer
\* (0 included), and one per distinct identifier when it is None; the k-th
\* record carries the k-th distinct identifier of the input.
C2_LengthAndOrder ==
    en_pc = "returned" =>
    LET ids == FirstIds(en_movies_list)
        n == IF IsNone(max_details) THEN Len(ids) ELSE Min(max_details.n, Len(ids))
    IN /\ Len(enriched_movies) = n
       /\ \A k \in 1..n : enriched_movies[k]["movie_id"] = ids[k]

\* C3: whichever detail fetches fail and in whatever order the workers finish,
\* enrich_movie_data_parallel does not raise; a listing whose fetch failed
\* comes out with exactly its listing fields, and one whose fetch succeeded
\* carries the detail fields of its detail record.
C3_FailuresAbsorbed ==
    /\ en_pc # "raised"
    /\ en_pc = "returned" =>
        /\ Len(enriched_movies) = Len(movies_to_process)
        /\ \A k \in 1..Len(movies_to_process) :
            LET movie == movies_to_process[k] IN
            IF movie["movie_id"] \in failed_ids
            THEN enriched_movies[k] = movie
            ELSE /\ DetailFields \subseteq DOMAIN enriched_movies[k]
                 /\ \A f \in DetailFields :
                     enriched_movies[k][f] = details_list[k].value[f]

\* C3 witness: of three fetches, finished out of order, one failed and one
\* succeeded, and the call returned
C3_Witness ==
    /\ en_pc = "returned"
    /\ Len(movies_to_process) = 3
    /\ finish_order # <<1, 2, 3>>
    /\ movies_to_process[1]["movie_id"] \in failed_ids
    /\ movies_to_process[2]["movie_id"] \notin failed_ids
    /\ DOMAIN enriched_movies[1] = DOMAIN ListingFull

C9_BoundedPoolAndBarrier ==
    en_pc # "idle" =>
    /\ Cardinality(running) <= max_workers
    /\ (details_dict # <<>> \/ enriched_movies # <<>>) => en_pc = "returned"
    /\ en_pc = "returned" =>
        /\ running = {} /\ pending = <<>>
        /\ DOMAIN details_list = 1..Len(movie_ids)
        /\ Len(finish_order) = Len(movie_ids)
        /\ Len(enriched_movies) = Len(movies_to_process)
        /\ \A k \in 1..Len(movies_to_process) :
            enriched_movies[k]["movie_id"] = movies_to_process[k]["movie_id"]

\* C9 witness: three fetches shared two workers and the second finished first
C9_Witness ==
    /\ en_pc = "returned"
    /\ max_workers = 2
    /\ finish_order = <<2, 1, 3>>
    /\ Len(enriched_movies) = 3

\* The first record of each movie_id, in order of first occurrence
RECURSIVE FirstRecords(_)
FirstRecords(q) ==
    IF q = <<>> THEN <<>>
    ELSE LET front == SubSeq(q, 1, Len(q) - 1)
             last == q[Len(q)]
         IN IF \E j \in 1..Len(front) : front[j]["movie_id"] = last["movie_id"]
            THEN FirstRecords(front)
            ELSE Append(FirstRecords(front), last)

HasValue(movie, f) == f \in DOMAIN movie /\ movie[f].t # "none"

\* C8: for each of the six numeric fields, clean_transform_data leaves a
\* present value (0 and negative values too) as it was, and replaces an absent
\* or null one by the field's statistic over the whole input, which is 0 when
\* no record has a value.
C8_PresentValuesKept ==
    cl_pc \in {"cleaned", "recleaned"} =>
    LET firsts == FirstRecords(cl_movies_list)
        stats == calculate_statistics(cl_movies_list)
    IN /\ Len(cleaned_movies) = Len(firsts)
       /\ \A k \in 1..Len(firsts) :
           \A f \in {"vote_average", "vote_count", "popularity", "runtime",
                     "budget", "revenue"} :
               IF HasValue(firsts[k], f)
               THEN cleaned_movies[k][f] = firsts[k][f]
               ELSE /\ cleaned_movies[k][f] = stats[f]
                    /\ (\A i \in 1..Len(cl_movies_list) :
                            ~HasValue(cl_movies_list[i], f))
                        => cleaned_movies[k][f] = Num(0)

\* C8 witness: a budget of 0 and a negative vote_average were present, the
\* budget statistic was not 0, and another record had no budget
C8_Witness ==
    /\ cl_pc = "cleaned"
    /\ Len(cl_movies_list) = 3
    /\ cl_movies_list[1] = RecordUnenriched
    /\ cl_movies_list[2] = RecordZeroBudget
    /\ calculate_statistics(cl_movies_list)["budget"] # Num(0)
    /\ cleaned_movies[1]["budget"] = calculate_statistics(cl_movies_list)["budget"]
    /\ cleaned_movies[2]["budget"] = Num(0)
    /\ cleaned_movies[2]["vote_average"] = Num(-1)

UniqueIds(q) ==
    \A i, j \in 1..Len(q) : q[i]["movie_id"] = q[j]["movie_id"] => i = j

\* C10: clean_transform_data applied to its own output gives that output
\* again, record for record and field for field; and its final dedup removes
\* nothing from an input whose identifiers are unique.
C10_Idempotent ==
    /\ cl_pc = "recleaned" => cleaned_again = cleaned_movies
    /\ (cl_pc \in {"cleaned", "recleaned"} /\ UniqueIds(cl_movies_list))
        => Len(cleaned_movies) = Len(cl_movies_list)

\* C10 witness: the first application imputed values and parsed a year, and
\* the second one computed other statistics than the first
C10_Witness ==
    /\ cl_pc = "recleaned"
    /\ Len(cleaned_again) = 2
    /\ cl_movies_list[1] = RecordUnenriched
    /\ cleaned_again[2]["release_year"] # None
    /\ calculate_statistics(cleaned_movies) # calculate_statistics(cl_movies_list)

StageOrder == <<"extract", "enrich", "clean", "sink">>

\* C6: the stages of a run start in the order extract, enrich, clean, sink;
\* the put is issued at most once and only after the first three stages are
\* over; when extraction raises or returns nothing there is no put and the run
\* ends in Failure with the message that caused it; a failed put ends the run
\* in Failure; the run ends in Success only with a put that succeeded; and every
\* run that ends, ends with a response.
C6_RunOutcome ==
    run_pc # "idle" =>
    /\ Len(stages) <= 4
    /\ stages = SubSeq(StageOrder, 1, Len(stages))
    /\ Len(puts) <= 1
    /\ puts # <<>> =>
        /\ stages = StageOrder
        /\ fm_pc = "has returned" /\ movies_list # <<>>
        /\ en_pc = "has returned"
        /\ cl_pc = "cleaned"
        /\ run_pc = "done"
    /\ (run_pc = "done" /\ fm_pc = "has raised") =>
        /\ puts = <<>>
        /\ stages = <<"extract">>
        /\ response = Failure(fm_error)
        /\ fm_error # NoError
    /\ (run_pc = "done" /\ fm_pc = "has returned" /\ movies_list = <<>>) =>
        /\ puts = <<>>
        /\ stages = <<"extract">>
        /\ response = Failure([exc |-> "Failed to fetch movies", arg |-> 0])
    /\ (puts # <<>> /\ ~puts[1].ok) => response.status = "Failure"
    /\ response.status = "Success" =>
        /\ Len(puts) = 1 /\ puts[1].ok
        /\ response.movies_processed = Len(cleaned_movies)
    /\ run_pc = "done" <=> response.status \in {"Success", "Failure"}

\* C6 witness: all four stages ran and the put, issued once, failed
C6_Witness ==
    /\ run_pc = "done"
    /\ stages = StageOrder
    /\ Len(puts) = 1
    /\ ~puts[1].ok
    /\ response.status = "Failure"
    /\ Len(puts[1].body.rows) = 2

====
